---- MODULE Spec2Model ----
(***************************************************************************)
(* Model of src/src/generation/chat/mod.rs (ollama-rs chat generation):    *)
(* send_chat_messages, send_chat_messages_stream and the history-aware     *)
(* send_chat_messages_with_history with its three helpers.                 *)
(*                                                                         *)
(* An async call is split at its suspension points (.await) and, for the   *)
(* history-aware call, between the prefill of line 110 and the dispatch of *)
(* line 112.  The HTTP transport and the server are the environment: their *)
(* answers are drawn from small sets.                                      *)
(***************************************************************************)
EXTENDS Integers, Sequences, FiniteSets

VARIABLES
    messages_history,   \* Ollama::messages_history : Option<MessagesHistory>
    calls,              \* one record per call slot: position and locals of the call
    ncalls,             \* number of calls started so far (bounded by MaxCalls)
    expected_history,   \* history variable: per id, H followed by the turns of the current run of successes
    ok_streak,          \* history variable: per id, length of the current run of successful one-message calls
    turns_log,          \* history variable: per id, user message and reply of every successful call so far
    all_single          \* history variable: per id, every call so far brought one message and completed

vars == <<messages_history, calls, ncalls, expected_history, ok_streak, turns_log, all_single>>

-----------------------------------------------------------------------------
(* Bounds of the model *)

MaxCalls == 2
MaxFrames == 2

-----------------------------------------------------------------------------
(* Option<T> and Result<T, E> *)

None == <<>>
Some(x) == <<x>>
IsSome(o) == o # <<>>
Unwrap(o) == o[1]

Ok(v) == [ok |-> TRUE, val |-> v]
Err(e) == [ok |-> FALSE, err |-> e]

-----------------------------------------------------------------------------
(* ChatMessage and MessageRole (lines 198-249) *)

MessageRole == {"User", "Assistant", "System"}

ChatMessage_new(role, content) == [role |-> role, content |-> content, images |-> None]
ChatMessage_user(content) == ChatMessage_new("User", content)
ChatMessage_assistant(content) == ChatMessage_new("Assistant", content)

\* serde names of the roles (lines 243-248); an unknown name does not deserialize
RoleOfJson(name) ==
    IF name = "user" THEN Some("User")
    ELSE IF name = "assistant" THEN Some("Assistant")
    ELSE IF name = "system" THEN Some("System")
    ELSE None

-----------------------------------------------------------------------------
(* Inputs *)

Ids == {"conv1", "conv2"}

UserMessages == {ChatMessage_user("a"), ChatMessage_user("b")}

\* request.messages as supplied by the caller: empty, one turn, several turns
RequestMessages ==
    {<<>>}
    \cup {<<m>> : m \in UserMessages}
    \cup {<<ChatMessage_user("a"), ChatMessage_user("b")>>}

\* ChatMessageRequest: only the fields the module touches
Requests == [messages : RequestMessages, stream : BOOLEAN]

NoRequest == [messages |-> <<>>, stream |-> FALSE]

\* requests of the history-aware call: every message list; streaming asked
\* for with one of them
HistoryRequests == {r \in Requests : r.stream => r.messages = <<ChatMessage_user("a")>>}

\* requests of send_chat_messages: one message or several, either flag
PlainRequests ==
    {[messages |-> <<ChatMessage_user("a")>>, stream |-> FALSE],
     [messages |-> <<ChatMessage_user("a"), ChatMessage_user("b")>>, stream |-> TRUE]}

\* the request of the streaming call: several messages, no streaming asked for
StreamRequests ==
    {[messages |-> <<ChatMessage_user("a"), ChatMessage_user("b")>>, stream |-> FALSE]}

-----------------------------------------------------------------------------------------------------------------------------------------------------
(* Bytes on the wire: a response body or one frame of a streamed response. *)
(* json: the bytes are one JSON object.  Every field of the object is an   *)
(* Option: None when the object has no such key.  The statistics are       *)
(* integers; numbers above the range of u64 are not among the inputs.      *)

U16_MAX == 65535

JsonMessage(role, content) == [role |-> role, content |-> content]

NoStats ==
    [total_duration |-> None, prompt_eval_count |-> None, prompt_eval_duration |-> None,
     eval_count |-> None, eval_duration |-> None]

FullStats ==
    [total_duration |-> Some(9), prompt_eval_count |-> Some(2), prompt_eval_duration |-> Some(3),
     eval_count |-> Some(4), eval_duration |-> Some(5)]

JsonObj(model, created_at, message, done, stats) ==
    [json |-> TRUE, model |-> model, created_at |-> created_at,
     message |-> message, done |-> done, stats |-> stats]

Garbage ==
    [json |-> FALSE, model |-> None, created_at |-> None,
     message |-> None, done |-> None, stats |-> NoStats]

\* an object with the model name and the creation time
Reply(message, done, stats) == JsonObj(Some("m"), Some("t"), message, done, stats)

ReplyX == Reply(Some(JsonMessage(Some("assistant"), Some("x"))), Some(TRUE), FullStats)
ReplyY == Reply(Some(JsonMessage(Some("assistant"), Some("y"))), Some(TRUE), FullStats)
ReplyNoMessage == Reply(None, Some(TRUE), FullStats)
ReplyNoDone == Reply(Some(JsonMessage(Some("assistant"), Some("x"))), None, NoStats)
ReplyBadRole == Reply(Some(JsonMessage(Some("robot"), Some("x"))), Some(TRUE), FullStats)
\* {"model":"m","done":true}
ReplyNoCreatedAt == JsonObj(Some("m"), None, None, Some(TRUE), NoStats)
\* the message has a role and no content
ReplyNoContent == Reply(Some(JsonMessage(Some("assistant"), None)), Some(TRUE), FullStats)
\* only four of the five final-data fields
ReplyPartial ==
    Reply(Some(JsonMessage(Some("assistant"), Some("y"))), Some(TRUE),
          [FullStats EXCEPT !.eval_duration = None])
\* all five final-data fields, eval_count above the range of u16
ReplyOverflow ==
    Reply(Some(JsonMessage(Some("assistant"), Some("y"))), Some(TRUE),
          [FullStats EXCEPT !.eval_count = Some(70000)])
\* all five final-data fields, a negative duration
ReplyNegative ==
    Reply(Some(JsonMessage(Some("assistant"), Some("x"))), Some(TRUE),
          [FullStats EXCEPT !.total_duration = Some(-1)])

Bodies ==
    {Garbage, ReplyX, ReplyY, ReplyNoMessage, ReplyNoDone, ReplyBadRole,
     ReplyNoCreatedAt, ReplyNoContent, ReplyPartial, ReplyOverflow, ReplyNegative}

\* What the transport answers to a POST: not sent at all, or a status and a
\* body that can be read (Some) or not (None).
HttpReply(sent, status_success, body) ==
    [sent |-> sent, status_success |-> status_success, body |-> body]

HttpReplies ==
    {HttpReply(FALSE, FALSE, None)}
    \cup {HttpReply(TRUE, FALSE, b) : b \in {None, Some(Garbage), Some(ReplyX)}}
    \cup {HttpReply(TRUE, TRUE, None)}
    \cup {HttpReply(TRUE, TRUE, Some(b)) : b \in Bodies}

-----------------------------------------------------------------------------
(* serde_json::from_slice::<ChatMessageResponse> (lines 170-196) *)

\* u64 (lines 187, 191, 195) and u16 (lines 189, 193) from a JSON integer
FitsU64(v) == v >= 0
FitsU16(v) == v >= 0 /\ v <= U16_MAX

\* lines 184-196 under #[serde(flatten)] Option (lines 179-181): the struct when
\* all five keys are there and each value fits its type; any failure gives None
FinalData(stats) ==
    IF /\ IsSome(stats.total_duration) /\ FitsU64(Unwrap(stats.total_duration))
       /\ IsSome(stats.prompt_eval_count) /\ FitsU16(Unwrap(stats.prompt_eval_count))
       /\ IsSome(stats.prompt_eval_duration) /\ FitsU64(Unwrap(stats.prompt_eval_duration))
       /\ IsSome(stats.eval_count) /\ FitsU16(Unwrap(stats.eval_count))
       /\ IsSome(stats.eval_duration) /\ FitsU64(Unwrap(stats.eval_duration))
    THEN Some([total_duration |-> Unwrap(stats.total_duration),
               prompt_eval_count |-> Unwrap(stats.prompt_eval_count),
               prompt_eval_duration |-> Unwrap(stats.prompt_eval_duration),
               eval_count |-> Unwrap(stats.eval_count),
               eval_duration |-> Unwrap(stats.eval_duration)])
    ELSE None

\* lines 198-203: role and content are required, images is optional
ChatMessage_from_json(m) ==
    IF /\ IsSome(m.role)
       /\ IsSome(RoleOfJson(Unwrap(m.role)))
       /\ IsSome(m.content)
    THEN Ok(ChatMessage_new(Unwrap(RoleOfJson(Unwrap(m.role))), Unwrap(m.content)))
    ELSE Err("message")

from_slice(bytes) ==
    IF ~bytes.json \/ ~IsSome(bytes.model) \/ ~IsSome(bytes.created_at) \/ ~IsSome(bytes.done)
    THEN Err([source |-> "decode", text |-> None])
    ELSE IF IsSome(bytes.message) /\ ~ChatMessage_from_json(Unwrap(bytes.message)).ok
    THEN Err([source |-> "decode", text |-> None])
    ELSE Ok([model |-> Unwrap(bytes.model),
             created_at |-> Unwrap(bytes.created_at),
             message |-> IF IsSome(bytes.message)
                         THEN Some(ChatMessage_from_json(Unwrap(bytes.message)).val)
                         ELSE None,
             done |-> Unwrap(bytes.done),
             final_data |-> FinalData(bytes.stats)])

-----
(* MessagesHistory (crate::history): messages_by_id maps an id to its     *)
(* sequence of messages.  A map is a function whose domain is its key set. *)

EmptyMap == [k \in {} |-> <<>>]

MessagesHistory_default == [messages_by_id |-> EmptyMap]

\* HashMap::entry(key).or_default(): the map with the key present
entry_or_default(map, key) ==
    [k \in DOMAIN map \cup {key} |-> IF k \in DOMAIN map THEN map[k] ELSE <<>>]

\* append(id, message): push to the end of the id's sequence, created if absent
add_message(history, id, message) ==
    [history EXCEPT !.messages_by_id =
        [k \in DOMAIN history.messages_by_id \cup {id} |->
            IF k = id
            THEN Append(IF id \in DOMAIN history.messages_by_id
                        THEN history.messages_by_id[id] ELSE <<>>, message)
            ELSE history.messages_by_id[k]]]

\* rollback_last(id): remove the last element if there is one, else nothing
pop_last_message_for_id(history, id) ==
    IF id \in DOMAIN history.messages_by_id /\ history.messages_by_id[id] # <<>>
    THEN [history EXCEPT !.messages_by_id[id] = SubSeq(@, 1, Len(@) - 1)]
    ELSE history

\* snapshot(id): the stored sequence of id, empty when there is no store or no entry
Stored(mh, id) ==
    IF IsSome(mh) /\ id \in DOMAIN Unwrap(mh).messages_by_id
    THEN Unwrap(mh).messages_by_id[id]
    ELSE <<>>

-----------------------------------------------------------------------------
(* Helpers of the history-aware call (lines 129-167).  Each takes the     *)
(* client's messages_history and returns it as the helper leaves it.       *)

\* Faulty variant: the whole of request.messages is added, not its first element.
get_prefill_messages_extend(mh, history_id, request_messages) ==
    LET target == IF IsSome(mh) THEN Unwrap(mh) ELSE MessagesHistory_default
        current == entry_or_default(target.messages_by_id, history_id)
        pushed == [current EXCEPT ![history_id] = @ \o request_messages]
    IN  [messages_history |->
            IF IsSome(mh) THEN Some([target EXCEPT !.messages_by_id = pushed]) ELSE mh,
         ret |-> pushed[history_id]]

\* Faulty variant: the working copy is a clone; the stored history is left alone.
get_prefill_messages_pure(mh, history_id, request_messages) ==
    [messages_history |-> mh,
     ret |-> Stored(mh, history_id)
             \o (IF request_messages # <<>> THEN <<request_messages[1]>> ELSE <<>>)]

\* Faulty variant: the new message is pushed to every stored conversation.
get_prefill_messages_all_ids(mh, history_id, request_messages) ==
    LET target == IF IsSome(mh) THEN Unwrap(mh) ELSE MessagesHistory_default
        current == entry_or_default(target.messages_by_id, history_id)
        pushed == IF request_messages # <<>>
                  THEN [k \in DOMAIN current |-> Append(current[k], request_messages[1])]
                  ELSE current
    IN  [messages_history |->
            IF IsSome(mh) THEN Some([target EXCEPT !.messages_by_id = pushed]) ELSE mh,
         ret |-> pushed[history_id]]

\* Faulty variant: a request without messages gets an empty user turn.
get_prefill_messages_placeholder(mh, history_id, request_messages) ==
    LET target == IF IsSome(mh) THEN Unwrap(mh) ELSE MessagesHistory_default
        current == entry_or_default(target.messages_by_id, history_id)
        message == IF request_messages # <<>> THEN request_messages[1] ELSE ChatMessage_user("")
        pushed == [current EXCEPT ![history_id] = Append(@, message)]
    IN  [messages_history |->
            IF IsSome(mh) THEN Some([target EXCEPT !.messages_by_id = pushed]) ELSE mh,
         ret |-> pushed[history_id]]

\* Faulty variant: the fallback history of a client without a store is kept.
get_prefill_messages_install(mh, history_id, request_messages) ==
    LET target == IF IsSome(mh) THEN Unwrap(mh) ELSE MessagesHistory_default
        current == entry_or_default(target.messages_by_id, history_id)
        pushed == IF request_messages # <<>>
                  THEN [current EXCEPT ![history_id] = Append(@, request_messages[1])]
                  ELSE current
    IN  [messages_history |-> Some([target EXCEPT !.messages_by_id = pushed]),
         ret |-> pushed[history_id]]

\* lines 139-161
get_prefill_messages(mh, history_id, request_messages) ==
    LET backup == MessagesHistory_default
        target == IF IsSome(mh) THEN Unwrap(mh) ELSE backup
        current == entry_or_default(target.messages_by_id, history_id)
        pushed == IF request_messages # <<>>
                  THEN [current EXCEPT ![history_id] = Append(@, request_messages[1])]
                  ELSE current
    IN  [messages_history |->
            IF IsSome(mh) THEN Some([target EXCEPT !.messages_by_id = pushed]) ELSE mh,
         ret |-> pushed[history_id]]

\* Faulty variant: the reply is put in front of the stored sequence.
store_chat_message_by_id_front(mh, id, message) ==
    IF IsSome(mh)
    THEN Some([messages_by_id |->
             [k \in DOMAIN Unwrap(mh).messages_by_id \cup {id} |->
                 IF k = id THEN <<message>> \o Stored(mh, id)
                 ELSE Unwrap(mh).messages_by_id[k]]])
    ELSE mh

\* lines 130-134
store_chat_message_by_id(mh, id, message) ==
    IF IsSome(mh) THEN Some(add_message(Unwrap(mh), id, message)) ELSE mh

\* Faulty variant: the rollback is forgotten.
remove_history_last_message_noop(mh, history_id) == mh

\* Faulty variant: a client without a history store gets one from the rollback.
remove_history_last_message_install(mh, history_id) ==
    Some(pop_last_message_for_id(IF IsSome(mh) THEN Unwrap(mh) ELSE MessagesHistory_default,
                                 history_id))

\* Faulty variant: the rollback removes the last two stored messages.
remove_history_last_message_twice(mh, history_id) ==
    IF IsSome(mh)
    THEN Some(pop_last_message_for_id(pop_last_message_for_id(Unwrap(mh), history_id), history_id))
    ELSE mh

\* lines 163-167
remove_history_last_message(mh, history_id) ==
    IF IsSome(mh) THEN Some(pop_last_message_for_id(Unwrap(mh), history_id)) ELSE mh

-----------------------------------------------------------------------------
(* send_chat_messages (lines 70-96) *)

\* Faulty variant: the caller's streaming flag is transmitted as given.
send_chat_messages_request_keep(request) == request

\* lines 74-75: the request as serialized and posted
send_chat_messages_request(request) == [request EXCEPT !.stream = FALSE]

\* Faulty variant: the status is not looked at; the body is decoded whatever it is.
send_chat_messages_result_any_status(reply) ==
    IF ~reply.sent THEN Err([source |-> "send", text |-> None])
    ELSE IF ~IsSome(reply.body) THEN Err([source |-> "read", text |-> None])
    ELSE from_slice(Unwrap(reply.body))

\* lines 85-95: the value returned for what the transport answered
send_chat_messages_result(reply) ==
    IF ~reply.sent THEN Err([source |-> "send", text |-> None])
    ELSE IF ~reply.status_success THEN Err([source |-> "status", text |-> reply.body])
    ELSE IF ~IsSome(reply.body) THEN Err([source |-> "read", text |-> None])
    ELSE from_slice(Unwrap(reply.body))

-----------------------------------------------------------------------------
(* send_chat_messages_stream (lines 23-66) *)

\* lines 29-30
send_chat_messages_stream_request(request) == [request EXCEPT !.stream = TRUE]

\* lines 42-46 and 65: an error, or the stream
send_chat_messages_stream_result(reply) ==
    IF ~reply.sent THEN Err([source |-> "send", text |-> None])
    ELSE IF ~reply.status_success THEN Err([source |-> "status", text |-> reply.body])
    ELSE Ok("stream")

\* lines 48-63: the closure mapped over bytes_stream(); a frame event is
\* Ok(bytes) or Err (the read failed)
map_frame(res) ==
    IF res.ok
    THEN (IF from_slice(res.val).ok THEN Ok(from_slice(res.val).val) ELSE Err("unit"))
    ELSE Err("unit")

FrameChunk == Reply(Some(JsonMessage(Some("assistant"), Some("x"))), Some(FALSE), NoStats)
FrameFinal == Reply(Some(JsonMessage(Some("assistant"), Some(""))), Some(TRUE), FullStats)
\* the last frame with a prompt_eval_count above the range of u16
FrameOverflow ==
    Reply(Some(JsonMessage(Some("assistant"), Some(""))), Some(TRUE),
          [FullStats EXCEPT !.prompt_eval_count = Some(100000)])
FrameEvents == {Ok(FrameChunk), Ok(FrameFinal), Ok(FrameOverflow), Ok(Garbage), Err("read")}

\* the outcomes of send().await (lines 41, 84): the POST fails, or a status
SendOutcomes ==
    {[sent |-> FALSE, status_success |-> FALSE],
     [sent |-> TRUE, status_success |-> FALSE],
     [sent |-> TRUE, status_success |-> TRUE]}

\* the answers read by send_chat_messages when it is called directly
PlainReplies ==
    {HttpReply(TRUE, FALSE, Some(ReplyX)), HttpReply(TRUE, TRUE, None),
     HttpReply(TRUE, TRUE, Some(Garbage)), HttpReply(TRUE, TRUE, Some(ReplyX))}

\* the answers whose body the streaming call reads (line 45)
StreamReplies == {r \in HttpReplies : r.sent /\ ~r.status_success}

-----------------------------------------------------------------------------
(* State of one call *)

Slots == {1, 2}

IdleCall ==
    [pc |-> "idle",           \* idle, prefilled, awaiting, reading, resolved, streaming,
                              \* done, panicked, dropped
     kind |-> "none",         \* with_history, plain, stream
     history_id |-> "",
     req0 |-> NoRequest,      \* the request as the caller passed it
     pre |-> None,            \* messages_history when the call was entered
     request |-> None,        \* the local `request` while the call owns it
     transmitted |-> None,    \* the request as posted, once posted
     status |-> None,         \* res.status().is_success(), once send() has resolved
     reply |-> None,          \* what the transport answered, once it has
     result |-> None,         \* what send_chat_messages / the stream call returned
     nframes |-> 0,           \* stream: how many frame events bytes_stream() has handed over
     nitems |-> 0,            \* stream: how many items the consumer has got
     frame |-> None,          \* stream: the last frame event
     item |-> None,           \* stream: the item made of it
     after_error |-> FALSE]   \* stream: the last item came after an error item

WithHistory(c) == calls[c].kind = "with_history"

\* the slot holds no invocation: never used, returned, unwound or dropped
Free(c) == calls[c].pc \in {"idle", "done", "panicked", "dropped"}

\* the future of the call is alive and borrows the client; the stream a
\* streaming call returned owns its response and borrows nothing
Borrowing(c) == calls[c].pc \in {"prefilled", "awaiting", "reading", "resolved"}

\* &mut self (line 105): no future that borrows the client is alive
Quiescent == \A c \in Slots : ~Borrowing(c)

\* &self (lines 24, 71): no future that borrows the client mutably is alive
Shareable == \A c \in Slots : ~(calls[c].kind = "with_history" /\ Borrowing(c))

\* the call records when a call is entered in slot c: the records of the
\* invocations that are over are let go
Enter(c, call) ==
    [d \in Slots |-> IF d = c THEN call ELSE IF Free(d) THEN IdleCall ELSE calls[d]]

Init ==
    /\ messages_history \in {None, Some(MessagesHistory_default)}
    /\ calls = [c \in Slots |-> IdleCall]
    /\ ncalls = 0
    /\ expected_history = [id \in Ids |-> <<>>]
    /\ ok_streak = [id \in Ids |-> 0]
    /\ turns_log = [id \in Ids |-> <<>>]
    /\ all_single = [id \in Ids |-> TRUE]

-----------------------------------------------------------------------------
(* send_chat_messages_with_history (lines 104-127) *)

\* Faulty variant: the receiver is &self, so the call is entered while other
\* futures borrow the client.
StartWithHistory_shared(c, history_id, req) ==
    /\ Free(c)
    /\ ncalls < MaxCalls
    /\ LET p == get_prefill_messages(messages_history, history_id, req.messages)
       IN  /\ messages_history' = p.messages_history
           /\ calls' = Enter(c,
                  [IdleCall EXCEPT !.pc = "prefilled",
                                   !.kind = "with_history",
                                   !.history_id = history_id,
                                   !.req0 = req,
                                   !.pre = messages_history,
                                   !.request = Some([req EXCEPT !.messages = p.ret])])
    /\ ncalls' = ncalls + 1
    /\ UNCHANGED <<expected_history, ok_streak, turns_log, all_single>>

\* lines 104-110: entry, which &mut self allows when no other future borrows
\* the client, and get_prefill_messages
StartWithHistory(c, history_id, req) ==
    /\ Free(c)
    /\ Quiescent
    /\ ncalls < MaxCalls
    /\ LET p == get_prefill_messages(messages_history, history_id, req.messages)
       IN  /\ messages_history' = p.messages_history
           /\ calls' = Enter(c,
                  [IdleCall EXCEPT !.pc = "prefilled",
                                   !.kind = "with_history",
                                   !.history_id = history_id,
                                   !.req0 = req,
                                   !.pre = messages_history,
                                   !.request = Some([req EXCEPT !.messages = p.ret])])
    /\ ncalls' = ncalls + 1
    /\ UNCHANGED <<expected_history, ok_streak, turns_log, all_single>>

\* line 112 with lines 74-84: the request is forced, serialized and posted.
\* A request that cannot be serialized (line 78) returns an error without a
\* POST; SendResolved gives that outcome as the POST that was not sent.
Dispatch(c) ==
    /\ calls[c].pc = "prefilled"
    /\ calls' = [calls EXCEPT ![c].pc = "awaiting",
                              ![c].transmitted =
                                  Some(send_chat_messages_request(Unwrap(calls[c].request))),
                              ![c].request = None]
    /\ UNCHANGED <<messages_history, ncalls, expected_history, ok_streak, turns_log, all_single>>

\* line 84: send().await resolves.  A POST that failed returns its error at
\* once (the ? of line 85); with a status the call goes on to read the body
\* and waits again (line 88 or line 91).
SendResolved(c, out) ==
    /\ calls[c].pc = "awaiting"
    /\ calls[c].kind \in {"with_history", "plain"}
    /\ IF out.sent
       THEN calls' = [calls EXCEPT ![c].pc = "reading",
                                   ![c].status = Some(out.status_success)]
       ELSE LET reply == HttpReply(FALSE, FALSE, None)
            IN  calls' = [calls EXCEPT
                    ![c].pc = IF calls[c].kind = "plain" THEN "done" ELSE "resolved",
                    ![c].reply = Some(reply),
                    ![c].result = Some(send_chat_messages_result(reply))]
    /\ UNCHANGED <<messages_history, ncalls, expected_history, ok_streak, turns_log, all_single>>

\* lines 87-95: text().await or bytes().await resolves and send_chat_messages
\* returns
Respond(c, reply) ==
    /\ calls[c].pc = "reading"
    /\ calls[c].kind \in {"with_history", "plain"}
    /\ reply.sent
    /\ reply.status_success = Unwrap(calls[c].status)
    /\ calls' = [calls EXCEPT ![c].pc = IF calls[c].kind = "plain" THEN "done" ELSE "resolved",
                              ![c].reply = Some(reply),
                              ![c].result = Some(send_chat_messages_result(reply))]
    /\ UNCHANGED <<messages_history, ncalls, expected_history, ok_streak, turns_log, all_single>>

\* The run of successful one-message calls on history_id goes on with this call.
Conforming(c) ==
    /\ IsSome(messages_history)
    /\ Len(calls[c].req0.messages) = 1
    /\ Unwrap(calls[c].result).ok
    /\ IsSome(Unwrap(calls[c].result).val.message)

\* lines 114-126: the reply is stored, or the last stored message removed
Reconcile(c) ==
    /\ calls[c].pc = "resolved"
    /\ LET r == Unwrap(calls[c].result)
           id == calls[c].history_id
       IN  /\ IF r.ok
              THEN IF IsSome(r.val.message)
                   THEN /\ messages_history' =
                              store_chat_message_by_id(messages_history, id, Unwrap(r.val.message))
                        /\ calls' = [calls EXCEPT ![c].pc = "done"]
                   ELSE \* Option::unwrap on None (line 117)
                        /\ messages_history' = messages_history
                        /\ calls' = [calls EXCEPT ![c].pc = "panicked"]
              ELSE /\ messages_history' = remove_history_last_message(messages_history, id)
                   /\ calls' = [calls EXCEPT ![c].pc = "done"]
           /\ IF Conforming(c)
              THEN /\ expected_history' = [expected_history EXCEPT ![id] =
                          @ \o <<calls[c].req0.messages[1], Unwrap(r.val.message)>>]
                   /\ ok_streak' = [ok_streak EXCEPT ![id] = @ + 1]
              ELSE /\ expected_history' = [expected_history EXCEPT ![id] =
                          Stored(messages_history', id)]
                   /\ ok_streak' = [ok_streak EXCEPT ![id] = 0]
           /\ IF ~all_single[id]
              THEN UNCHANGED <<turns_log, all_single>>
              ELSE IF Len(calls[c].req0.messages) = 1 /\ (r.ok => IsSome(r.val.message))
                   THEN /\ turns_log' = [turns_log EXCEPT ![id] =
                               IF r.ok
                               THEN @ \o <<calls[c].req0.messages[1], Unwrap(r.val.message)>>
                               ELSE @]
                        /\ UNCHANGED all_single
                   ELSE /\ turns_log' = [turns_log EXCEPT ![id] = <<>>]
                        /\ all_single' = [all_single EXCEPT ![id] = FALSE]
    /\ UNCHANGED ncalls

\* the history variables once a call on its identifier is left unfinished
Unfinished(c) ==
    IF calls[c].kind = "with_history"
    THEN LET id == calls[c].history_id
         IN  /\ expected_history' = [expected_history EXCEPT ![id] = Stored(messages_history', id)]
             /\ ok_streak' = [ok_streak EXCEPT ![id] = 0]
             /\ turns_log' = [turns_log EXCEPT ![id] = <<>>]
             /\ all_single' = [all_single EXCEPT ![id] = FALSE]
    ELSE UNCHANGED <<expected_history, ok_streak, turns_log, all_single>>

\* Faulty variant: dropping the pending call removes the message it appended.
Abandon_with_rollback(c) ==
    /\ calls[c].pc \in {"awaiting", "reading"}
    /\ messages_history' =
           IF calls[c].kind = "with_history"
           THEN remove_history_last_message(messages_history, calls[c].history_id)
           ELSE messages_history
    /\ calls' = [calls EXCEPT ![c].pc = "dropped"]
    /\ Unfinished(c)
    /\ UNCHANGED ncalls

\* lines 41, 45, 84, 88, 91, 112: the caller drops the future while it is
\* suspended at an .await; nothing of the call runs after that.
Abandon(c) ==
    /\ calls[c].pc \in {"awaiting", "reading"}
    /\ messages_history' = messages_history
    /\ calls' = [calls EXCEPT ![c].pc = "dropped"]
    /\ Unfinished(c)
    /\ UNCHANGED ncalls

-----------------------------------------------------------------------------
(* send_chat_messages called directly (lines 70-84) *)

SendChatMessages(c, req) ==
    /\ Free(c)
    /\ Shareable
    /\ ncalls < MaxCalls
    /\ calls' = Enter(c,
           [IdleCall EXCEPT !.pc = "awaiting",
                            !.kind = "plain",
                            !.req0 = req,
                            !.pre = messages_history,
                            !.transmitted = Some(send_chat_messages_request(req))])
    /\ ncalls' = ncalls + 1
    /\ UNCHANGED <<messages_history, expected_history, ok_streak, turns_log, all_single>>

-----------------------------------------------------------------------------
(* send_chat_messages_stream (lines 23-66) *)

\* Faulty variant: the stored history of a conversation is posted in front of the
\* caller's messages.
SendChatMessagesStream_stored(c, req) ==
    /\ Free(c)
    /\ Shareable
    /\ ncalls < MaxCalls
    /\ \E id \in Ids :
           calls' = Enter(c,
               [IdleCall EXCEPT !.pc = "awaiting",
                                !.kind = "stream",
                                !.req0 = req,
                                !.pre = messages_history,
                                !.transmitted = Some(send_chat_messages_stream_request(
                                    [req EXCEPT !.messages = Stored(messages_history, id) \o @]))])
    /\ ncalls' = ncalls + 1
    /\ UNCHANGED <<messages_history, expected_history, ok_streak, turns_log, all_single>>

\* lines 29-41
SendChatMessagesStream(c, req) ==
    /\ Free(c)
    /\ Shareable
    /\ ncalls < MaxCalls
    /\ calls' = Enter(c,
           [IdleCall EXCEPT !.pc = "awaiting",
                            !.kind = "stream",
                            !.req0 = req,
                            !.pre = messages_history,
                            !.transmitted = Some(send_chat_messages_stream_request(req))])
    /\ ncalls' = ncalls + 1
    /\ UNCHANGED <<messages_history, expected_history, ok_streak, turns_log, all_single>>

\* lines 41-43 and 48-65: send().await resolves.  A POST that failed returns
\* its error at once; a success status returns the stream with no further
\* wait; any other status makes the call read the body and wait again (line 45).
StreamSendResolved(c, out) ==
    /\ calls[c].pc = "awaiting"
    /\ calls[c].kind = "stream"
    /\ IF out.sent /\ ~out.status_success
       THEN calls' = [calls EXCEPT ![c].pc = "reading",
                                   ![c].status = Some(FALSE)]
       ELSE LET reply == HttpReply(out.sent, out.status_success, None)
                r == send_chat_messages_stream_result(reply)
            IN  calls' = [calls EXCEPT ![c].pc = IF r.ok THEN "streaming" ELSE "done",
                                       ![c].reply = Some(reply),
                                       ![c].result = Some(r)]
    /\ UNCHANGED <<messages_history, ncalls, expected_history, ok_streak, turns_log, all_single>>

\* lines 44-46: text().await resolves and the error is returned
StreamRespond(c, reply) ==
    /\ calls[c].pc = "reading"
    /\ calls[c].kind = "stream"
    /\ calls' = [calls EXCEPT ![c].pc = "done",
                              ![c].reply = Some(reply),
                              ![c].result = Some(send_chat_messages_stream_result(reply))]
    /\ UNCHANGED <<messages_history, ncalls, expected_history, ok_streak, turns_log, all_single>>

\* the frames read so far from the streams that are open
OpenFrames == [c \in Slots |-> IF calls[c].pc = "streaming" THEN calls[c].nframes ELSE 0]

\* lines 48-63: the consumer polls, bytes_stream() hands a frame event and the
\* closure maps it to an item, whatever the items before it were.
StreamNext(c, ev) ==
    /\ calls[c].pc = "streaming"
    /\ OpenFrames[1] + OpenFrames[2] < MaxFrames
    /\ calls' = [calls EXCEPT ![c].nframes = @ + 1,
                              ![c].nitems = @ + 1,
                              ![c].frame = Some(ev),
                              ![c].item = Some(map_frame(ev)),
                              ![c].after_error =
                                  @ \/ (IsSome(calls[c].item) /\ ~Unwrap(calls[c].item).ok)]
    /\ UNCHANGED <<messages_history, ncalls, expected_history, ok_streak, turns_log, all_single>>

\* bytes_stream() has no more frames, or the consumer drops the stream: the
\* stream and what was read from it are gone
StreamEnd(c) ==
    /\ calls[c].pc = "streaming"
    /\ calls' = [calls EXCEPT ![c].pc = "done",
                              ![c].nframes = 0,
                              ![c].nitems = 0,
                              ![c].frame = None,
                              ![c].item = None,
                              ![c].after_error = FALSE]
    /\ UNCHANGED <<messages_history, ncalls, expected_history, ok_streak, turns_log, all_single>>

-----------------------------------------------------------------------------
(* Specifications *)

\* a new call takes the first slot that holds no invocation
FirstFree(c) == Free(c) /\ \A d \in Slots : d < c => ~Free(d)

\* Inputs of a history-aware call that runs beside an open stream
OverlapRequests == {r \in Requests : ~r.stream /\ Len(r.messages) <= 1}

OverlapOutcomes == {out \in SendOutcomes : out.sent = out.status_success}

OverlapReplies ==
    {HttpReply(TRUE, TRUE, Some(ReplyX)), HttpReply(TRUE, TRUE, Some(ReplyY))}

\* another slot holds an invocation or an open stream
Crowded(c) == \E d \in Slots \ {c} : ~Free(d)

\* One client.  The borrow rules order the calls: the history-aware call takes
\* &mut self and runs alone; the two others take &self and run side by side,
\* and beside the streams that are open.
Next ==
    \E c \in Slots :
        \/ \E id \in Ids, req \in HistoryRequests :
               /\ FirstFree(c)
               /\ Crowded(c) => req \in OverlapRequests
               /\ StartWithHistory(c, id, req)
        \/ Dispatch(c)
        \/ \E out \in SendOutcomes :
               /\ (WithHistory(c) /\ Crowded(c)) => out \in OverlapOutcomes
               /\ SendResolved(c, out)
        \/ \E reply \in HttpReplies :
               /\ calls[c].kind = "plain" => reply \in PlainReplies
               /\ (WithHistory(c) /\ Crowded(c)) => reply \in OverlapReplies
               /\ Respond(c, reply)
        \/ Reconcile(c)
        \/ Abandon(c)
        \/ \E req \in PlainRequests : FirstFree(c) /\ SendChatMessages(c, req)
        \/ \E req \in StreamRequests : FirstFree(c) /\ SendChatMessagesStream(c, req)
        \/ \E out \in SendOutcomes : StreamSendResolved(c, out)
        \/ \E reply \in StreamReplies : StreamRespond(c, reply)
        \/ \E ev \in FrameEvents : StreamNext(c, ev)
        \/ StreamEnd(c)

Spec == Init /\ [][Next]_vars

-----
(* Vocabulary of the properties *)

Range(seq) == {seq[i] : i \in DOMAIN seq}

\* the "new message": the first element of the caller's request.messages, if any
NewTurn(c) ==
    IF calls[c].req0.messages # <<>> THEN <<calls[c].req0.messages[1]>> ELSE <<>>

\* the call has returned an error to its caller
ReturnedErr(c) == calls[c].pc = "done" /\ ~Unwrap(calls[c].result).ok

\* the call has returned a response to its caller
ReturnedOk(c) == calls[c].pc = "done" /\ Unwrap(calls[c].result).ok

-----------------------------------------------------------------------------
\* C1: a send_chat_messages_with_history call that fails at the transport or
\* remote-status level leaves the stored history of its identifier exactly as
\* it was before the call, for any request.messages (the empty list included)
\* and any prior history.
C1_FailedCallRestoresHistory ==
    \A c \in Slots :
        (/\ WithHistory(c)
         /\ ReturnedErr(c)
         /\ Unwrap(calls[c].result).err.source \in {"send", "status"})
        => Stored(messages_history, calls[c].history_id)
               = Stored(calls[c].pre, calls[c].history_id)

-----------------------------------------------------------------------------
\* C2: after N consecutive successful calls on one identifier, each with exactly
\* one new message u_i and reply a_i, the stored history is the history H before
\* the first of them followed by u_1, a_1, ..., u_N, a_N in call order.
C2_SuccessfulCallsInterleave ==
    (Quiescent /\ IsSome(messages_history))
    => \A id \in Ids :
           ok_streak[id] >= 1 => Stored(messages_history, id) = expected_history[id]

\* two successful calls on conv1 with different messages and different replies
C2_Witness ==
    /\ Quiescent
    /\ IsSome(messages_history)
    /\ ok_streak["conv1"] = 2
    /\ Stored(messages_history, "conv1") =
           <<ChatMessage_user("a"), ChatMessage_assistant("x"),
             ChatMessage_user("b"), ChatMessage_assistant("y")>>

-----------------------------------------------------------------------------
\* C3: the messages transmitted by send_chat_messages_with_history are the
\* history stored for the identifier before the call followed by the first
\* element of request.messages; later elements of request.messages are neither
\* transmitted nor stored.
C3_TransmitsHistoryPlusFirst ==
    \A c \in Slots :
        WithHistory(c) =>
            /\ IsSome(calls[c].transmitted) =>
                   Unwrap(calls[c].transmitted).messages
                       = Stored(calls[c].pre, calls[c].history_id) \o NewTurn(c)
            /\ (Borrowing(c) /\ IsSome(messages_history)) =>
                   Stored(messages_history, calls[c].history_id)
                       = Stored(calls[c].pre, calls[c].history_id) \o NewTurn(c)

\* a request of two messages posted on an identifier that has a history
C3_Witness ==
    \E c \in Slots :
        /\ WithHistory(c)
        /\ Len(calls[c].req0.messages) = 2
        /\ Stored(calls[c].pre, calls[c].history_id) # <<>>
        /\ IsSome(calls[c].transmitted)
        /\ Len(Unwrap(calls[c].transmitted).messages)
               = Len(Stored(calls[c].pre, calls[c].history_id)) + 1

-----------------------------------------------------------------------------
\* C4: every invocation of send_chat_messages_with_history ends by handing the
\* caller a response or an error, whatever the transport answered, a decoded
\* response without a message included; it never terminates abnormally.
C4_AlwaysReturns ==
    \A c \in Slots :
        WithHistory(c) =>
            /\ calls[c].pc # "panicked"
            /\ calls[c].pc = "done" => IsSome(calls[c].result)

-----------------------------------------------------------------------------
\* C5: in a streaming response the first frame that fails to deserialize, or
\* whose read fails, gives one error item and ends the sequence: no item is
\* delivered after the first error item.
C5_ErrorItemEndsStream ==
    \A c \in Slots : ~calls[c].after_error

-----------------------------------------------------------------------------
\* C6 as stated, its last clause: nothing serializes the calls on an
\* identifier, so while one send_chat_messages_with_history invocation is
\* between its steps and the caller has a call left to make, another invocation
\* for the same identifier can begin (and the two then interleave).
C6_NothingSerializesCalls ==
    \A c \in Slots :
        (/\ WithHistory(c)
         /\ Borrowing(c)
         /\ ncalls < MaxCalls
         /\ \E d \in Slots : Free(d))
        => ENABLED (\E d \in Slots, req \in HistoryRequests :
                       StartWithHistory(d, calls[c].history_id, req))

\* C6, amended: the &mut self receiver (line 105) serializes the calls on one
\* client.  While a send_chat_messages_with_history invocation is between its
\* steps no other invocation borrows the client and none can begin, for any
\* identifier; the stored history of its identifier is then the history at
\* entry followed by its own new message, with no append or rollback of
\* another call in between.
C6_CallsSerialized ==
    \A c \in Slots :
        (WithHistory(c) /\ Borrowing(c)) =>
            /\ \A d \in Slots \ {c} : ~Borrowing(d)
            /\ ~ENABLED (\E d \in Slots, id \in Ids, req \in HistoryRequests :
                            StartWithHistory(d, id, req))
            /\ IsSome(messages_history) =>
                   Stored(messages_history, calls[c].history_id)
                       = Stored(calls[c].pre, calls[c].history_id) \o NewTurn(c)

\* a call that has stored its user message waits for the response body while
\* the caller has a call left to make and a slot to make it in
C6_Witness ==
    \E c \in Slots :
        /\ WithHistory(c)
        /\ calls[c].pc = "reading"
        /\ IsSome(messages_history)
        /\ NewTurn(c) # <<>>
        /\ ncalls < MaxCalls
        /\ \E d \in Slots \ {c} : Free(d)

\* the second call on conv1 runs after the first has stored its reply
C6_WitnessSecondCall ==
    \E c \in Slots :
        /\ WithHistory(c)
        /\ calls[c].pc = "awaiting"
        /\ calls[c].history_id = "conv1"
        /\ ncalls = 2
        /\ Stored(calls[c].pre, "conv1") = <<ChatMessage_user("a"), ChatMessage_assistant("x")>>
        /\ IsSome(messages_history)
        /\ Stored(messages_history, "conv1") =
               <<ChatMessage_user("a"), ChatMessage_assistant("x"), ChatMessage_user("b")>>

-----
\* The order of the steps of one send_chat_messages_with_history invocation,
\* as a condition on a step: the new user
\* message is in the stored history before the step that posts the request,
\* and the stored history changes after the prefill only once the response has
\* been received and decoded: a successful response's message is appended, and
\* no reply is stored before its response arrives.
C7_StepOrder ==
    \A c \in Slots :
        LET id == calls[c].history_id
            posts == /\ WithHistory(c)
                     /\ ~IsSome(calls[c].transmitted)
                     /\ IsSome(calls'[c].transmitted)
            in_progress == WithHistory(c) /\ Borrowing(c)
        IN  /\ (posts /\ IsSome(messages_history)) =>
                   /\ Stored(messages_history, id) = Stored(calls[c].pre, id) \o NewTurn(c)
                   /\ messages_history' = messages_history
            /\ (in_progress /\ messages_history' # messages_history) =>
                   /\ calls[c].pc = "resolved"
                   /\ IsSome(calls[c].result)
                   /\ Len(Stored(messages_history', id)) > Len(Stored(messages_history, id)) =>
                          /\ Unwrap(calls[c].result).ok
                          /\ Stored(messages_history', id) =
                                 Append(Stored(messages_history, id),
                                        Unwrap(Unwrap(calls[c].result).val.message))

\* C7: every step keeps the order of one invocation: the user message is
\* stored before the request is posted, the reply only after its response.
C7_AppendBeforeDispatchReplyAfterResponse == [][C7_StepOrder]_vars

\* a call with a new message has stored it, posted, and stored the reply
C7_Witness ==
    \E c \in Slots :
        /\ WithHistory(c)
        /\ ReturnedOk(c)
        /\ IsSome(messages_history)
        /\ IsSome(calls[c].transmitted)
        /\ NewTurn(c) # <<>>
        /\ Stored(messages_history, calls[c].history_id) =
               Stored(calls[c].pre, calls[c].history_id) \o NewTurn(c)
                   \o <<Unwrap(Unwrap(calls[c].result).val.message)>>

-----------------------------------------------------------------------------
\* C8: a send_chat_messages_with_history call on identifier A, successful or
\* not, leaves the stored sequence of every other identifier B as it was, and
\* transmits no message taken from the sequence stored under B.
C8_OtherConversationsUntouched ==
    \A c \in Slots :
        (WithHistory(c) /\ calls[c].pc # "idle") =>
            \A B \in Ids \ {calls[c].history_id} :
                /\ Stored(messages_history, B) = Stored(calls[c].pre, B)
                /\ IsSome(messages_history) =>
                       (B \in DOMAIN Unwrap(messages_history).messages_by_id
                            <=> B \in DOMAIN Unwrap(calls[c].pre).messages_by_id)
                /\ IsSome(calls[c].transmitted) =>
                       \A m \in Range(Unwrap(calls[c].transmitted).messages) :
                           m \in Range(Stored(messages_history, B)) =>
                               m \in Range(Stored(calls[c].pre, calls[c].history_id))
                                        \cup Range(NewTurn(c))

\* a call on conv1 has returned while conv2 holds a history of its own
C8_Witness ==
    \E c \in Slots :
        /\ WithHistory(c)
        /\ calls[c].pc = "done"
        /\ calls[c].history_id = "conv1"
        /\ NewTurn(c) # <<>>
        /\ Len(Stored(messages_history, "conv2")) = 2
        /\ Range(Stored(messages_history, "conv2")) \cap Range(Unwrap(calls[c].transmitted).messages) = {}

-----------------------------------------------------------------------------
\* C9: the streaming flag of the transmitted request is fixed by the operation:
\* send_chat_messages, and so send_chat_messages_with_history, transmits
\* stream = false and send_chat_messages_stream transmits stream = true,
\* whatever the caller set on the request.
C9_StreamFlagForced ==
    \A c \in Slots :
        IsSome(calls[c].transmitted) =>
            Unwrap(calls[c].transmitted).stream = (calls[c].kind = "stream")

\* the caller asked for streaming on a history-aware call; false was transmitted
C9_Witness ==
    \E c \in Slots :
        /\ WithHistory(c)
        /\ calls[c].req0.stream
        /\ IsSome(calls[c].transmitted)
        /\ ~Unwrap(calls[c].transmitted).stream

\* the caller asked for no streaming on a streaming call; true was transmitted
C9_WitnessStream ==
    \E c \in Slots :
        /\ calls[c].kind = "stream"
        /\ ~calls[c].req0.stream
        /\ IsSome(calls[c].transmitted)
        /\ Unwrap(calls[c].transmitted).stream

-----------------------------------------------------------------------------
\* every frame read so far was read and deserialized: no item was an error
AllFramesDeserialize(c) ==
    /\ ~calls[c].after_error
    /\ IsSome(calls[c].item) => Unwrap(calls[c].item).ok

\* the frame has all five final-data fields
CarriesAllStats(frame) ==
    /\ IsSome(frame.stats.total_duration)
    /\ IsSome(frame.stats.prompt_eval_count)
    /\ IsSome(frame.stats.prompt_eval_duration)
    /\ IsSome(frame.stats.eval_count)
    /\ IsSome(frame.stats.eval_duration)

\* C10: when every frame of a streaming response deserializes, the consumer
\* gets one item per frame, in frame order; an item carries final statistics
\* exactly when its frame carried them all, and the message and completion
\* flag of its frame.
C10_OneItemPerFrame ==
    \A c \in Slots :
        (calls[c].kind = "stream" /\ AllFramesDeserialize(c)) =>
            /\ calls[c].nitems = calls[c].nframes
            /\ IsSome(calls[c].item) =>
                   LET item == Unwrap(calls[c].item)
                       frame == Unwrap(calls[c].frame).val
                   IN  /\ item.ok
                       /\ item.val.done = Unwrap(frame.done)
                       /\ IsSome(item.val.final_data) <=> CarriesAllStats(frame)
                       /\ IsSome(item.val.message) <=> IsSome(frame.message)
                       /\ IsSome(frame.message) =>
                              Unwrap(item.val.message).content = Unwrap(Unwrap(frame.message).content)

-----
\* C11: the rollback is a no-op when the identifier has no stored sequence,
\* when its sequence is empty, or when the client has no history store; a
\* failed send_chat_messages_with_history call with no new message on an
\* identifier without history leaves that history empty and returns the error.
C11_RollbackNoOpWithoutHistory ==
    /\ \A id \in Ids :
           Stored(messages_history, id) = <<>> =>
               remove_history_last_message(messages_history, id) = messages_history
    /\ \A c \in Slots :
           (/\ WithHistory(c)
            /\ calls[c].pc \in {"done", "panicked"}
            /\ ~Unwrap(calls[c].result).ok
            /\ calls[c].req0.messages = <<>>
            /\ Stored(calls[c].pre, calls[c].history_id) = <<>>)
           => /\ calls[c].pc = "done"
              /\ Stored(messages_history, calls[c].history_id) = <<>>
              /\ IsSome(messages_history) <=> IsSome(calls[c].pre)

\* a call without a new message on an identifier the store did not know has
\* failed to send
C11_Witness ==
    \E c \in Slots :
        /\ WithHistory(c)
        /\ ReturnedErr(c)
        /\ Unwrap(calls[c].result).err.source = "send"
        /\ calls[c].req0.messages = <<>>
        /\ IsSome(calls[c].pre)
        /\ calls[c].history_id \notin DOMAIN Unwrap(calls[c].pre).messages_by_id
        /\ Stored(messages_history, calls[c].history_id) = <<>>

\* the same on a client without a history store
C11_WitnessNoStore ==
    \E c \in Slots :
        /\ WithHistory(c)
        /\ ReturnedErr(c)
        /\ calls[c].req0.messages = <<>>
        /\ ~IsSome(calls[c].pre)
        /\ ~IsSome(messages_history)

-----------------------------------------------------------------------------
\* C12: a non-streaming call returns a response exactly when the request was
\* sent, the status was a success, the body was read and the body decoded.  A
\* non-success status gives an error carrying the body text (or the transport's
\* description when the body cannot be read), never a response, also when the
\* body is a well-formed response; the streaming call applies the same status
\* rule before it produces any stream.
C12_ResponseIffSentSuccessReadDecoded ==
    \A c \in Slots :
        IsSome(calls[c].reply) =>
            LET reply == Unwrap(calls[c].reply)
                r == Unwrap(calls[c].result)
            IN  /\ calls[c].kind \in {"with_history", "plain"} =>
                       (r.ok <=> /\ reply.sent
                                 /\ reply.status_success
                                 /\ IsSome(reply.body)
                                 /\ from_slice(Unwrap(reply.body)).ok)
                /\ (reply.sent /\ ~reply.status_success) =>
                       /\ ~r.ok
                       /\ r.err.text = reply.body
                       /\ calls[c].pc # "streaming"
                       /\ calls[c].nitems = 0
                /\ (calls[c].kind = "stream" /\ ~reply.sent) => ~r.ok

\* a non-success status whose body is a well-formed response: an error with
\* that body as its text
C12_Witness ==
    \E c \in Slots :
        /\ calls[c].kind = "plain"
        /\ calls[c].reply = Some(HttpReply(TRUE, FALSE, Some(ReplyX)))
        /\ ~Unwrap(calls[c].result).ok
        /\ Unwrap(calls[c].result).err.text = Some(ReplyX)

\* the same status rule on the streaming call: an error and no stream
C12_WitnessStream ==
    \E c \in Slots :
        /\ calls[c].kind = "stream"
        /\ calls[c].reply = Some(HttpReply(TRUE, FALSE, None))
        /\ calls[c].pc = "done"
        /\ ~Unwrap(calls[c].result).ok

-----------------------------------------------------------------------------
\* C13: a send_chat_messages_with_history call answered with a success status
\* whose body cannot be read or does not decode is a failure like any other:
\* the user turn appended before the dispatch is rolled back, so that for a
\* request of exactly one message the stored history equals the history before
\* the call, and the error is returned to the caller.
UnusableBody(reply) ==
    /\ reply.sent
    /\ reply.status_success
    /\ ~IsSome(reply.body) \/ ~from_slice(Unwrap(reply.body)).ok

C13_DecodeFailureRollsBack ==
    \A c \in Slots :
        (/\ WithHistory(c)
         /\ calls[c].pc \in {"done", "panicked"}
         /\ UnusableBody(Unwrap(calls[c].reply)))
        => /\ ReturnedErr(c)
           /\ Unwrap(calls[c].result).err.source \in {"read", "decode"}
           /\ Len(calls[c].req0.messages) = 1 =>
                  Stored(messages_history, calls[c].history_id)
                      = Stored(calls[c].pre, calls[c].history_id)

\* a one-message call on an identifier with history got a success status and a
\* body that does not decode
C13_Witness ==
    \E c \in Slots :
        /\ WithHistory(c)
        /\ ReturnedErr(c)
        /\ IsSome(messages_history)
        /\ calls[c].reply = Some(HttpReply(TRUE, TRUE, Some(ReplyNoDone)))
        /\ Len(calls[c].req0.messages) = 1
        /\ Len(Stored(calls[c].pre, calls[c].history_id)) = 2
        /\ Stored(messages_history, calls[c].history_id)
               = Stored(calls[c].pre, calls[c].history_id)

-----------------------------------------------------------------------------
\* C14: with an empty request.messages, send_chat_messages_with_history appends
\* nothing to the stored history before the dispatch, transmits exactly the
\* history stored before, is dispatched all the same, and on success appends
\* only the reply: the stored history grows by exactly one message.
C14_EmptyRequest ==
    \A c \in Slots :
        (WithHistory(c) /\ calls[c].req0.messages = <<>>) =>
            LET id == calls[c].history_id
            IN  /\ Borrowing(c) =>
                       Stored(messages_history, id) = Stored(calls[c].pre, id)
                /\ calls[c].pc = "prefilled" => ENABLED Dispatch(c)
                /\ IsSome(calls[c].transmitted) =>
                       Unwrap(calls[c].transmitted).messages = Stored(calls[c].pre, id)
                /\ (ReturnedOk(c) /\ IsSome(messages_history)) =>
                       Stored(messages_history, id) =
                           Append(Stored(calls[c].pre, id),
                                  Unwrap(Unwrap(calls[c].result).val.message))

\* an empty request on an identifier with history has succeeded
C14_Witness ==
    \E c \in Slots :
        /\ WithHistory(c)
        /\ calls[c].req0.messages = <<>>
        /\ ReturnedOk(c)
        /\ Len(Stored(calls[c].pre, calls[c].history_id)) = 2
        /\ Unwrap(calls[c].transmitted).messages = Stored(calls[c].pre, calls[c].history_id)
        /\ Len(Stored(messages_history, calls[c].history_id)) = 3

-----------------------------------------------------------------------------
\* C15: after any sequence of completed send_chat_messages_with_history calls
\* on one identifier, successes and failures mixed, each with exactly one new
\* message and each successful response carrying a message, the stored history
\* is the user message and reply of exactly the successful calls in call
\* order; whenever no call is in progress it has even length and every user
\* turn is directly followed by its reply.
C15_HistoryIsSuccessfulTurns ==
    \A id \in Ids :
        (Quiescent /\ IsSome(messages_history) /\ all_single[id]) =>
            LET h == Stored(messages_history, id)
            IN  /\ h = turns_log[id]
                /\ Len(h) % 2 = 0
                /\ \A i \in DOMAIN h : i % 2 = 1 => h[i] \in UserMessages

\* a failed call after a successful one: only the successful turn is stored
C15_Witness ==
    /\ ReturnedErr(1)
    /\ WithHistory(1)
    /\ Len(calls[1].req0.messages) = 1
    /\ all_single[calls[1].history_id]
    /\ Len(turns_log[calls[1].history_id]) = 2
    /\ Stored(messages_history, calls[1].history_id) = turns_log[calls[1].history_id]

\* a successful call after a failed one
C15_WitnessFailureFirst ==
    /\ ReturnedOk(1)
    /\ WithHistory(1)
    /\ ncalls = 2
    /\ all_single[calls[1].history_id]
    /\ Stored(calls[1].pre, calls[1].history_id) = <<>>
    /\ Len(Stored(messages_history, calls[1].history_id)) = 2

-----------------------------------------------------------------------------
\* IsPrefix(s, t): the sequence t begins with s
IsPrefix(s, t) == Len(s) <= Len(t) /\ SubSeq(t, 1, Len(s)) = s

C16_Step ==
    \A c \in Slots :
        LET id == calls[c].history_id
            orphaned == Stored(calls[c].pre, id) \o NewTurn(c)
        IN  \* the pending call is dropped: nothing is rolled back
            /\ (WithHistory(c) /\ Borrowing(c) /\ calls'[c].pc = "dropped") =>
                   /\ messages_history' = messages_history
                   /\ IsSome(messages_history) => Stored(messages_history', id) = orphaned
            \* the next call on the identifier posts the orphan with the history
            /\ \A d \in Slots :
                   (/\ WithHistory(c)
                    /\ calls[c].pc = "dropped"
                    /\ calls[d].pc # "prefilled"
                    /\ calls'[d].pc = "prefilled"
                    /\ calls'[d].history_id = id
                    /\ IsSome(messages_history)) =>
                       IsPrefix(orphaned,
                                send_chat_messages_request(Unwrap(calls'[d].request)).messages)

\* C16: when a send_chat_messages_with_history call is abandoned while it is
\* suspended on the network, no rollback runs: the user message appended before
\* the dispatch stays in the stored history without a reply, and the next call
\* on that identifier transmits it as part of the history.
C16_AbandonLeavesOrphan == [][C16_Step]_vars

\* a call that appended a user message has been dropped: the message is last in
\* the stored history and no reply follows it
C16_Witness ==
    \E c \in Slots :
        /\ WithHistory(c)
        /\ calls[c].pc = "dropped"
        /\ NewTurn(c) # <<>>
        /\ IsSome(messages_history)
        /\ Stored(messages_history, calls[c].history_id) =
               Stored(calls[c].pre, calls[c].history_id) \o NewTurn(c)

\* the call after a dropped one is about to post the orphan and its own message
C16_WitnessNextCall ==
    \E c \in Slots :
        /\ WithHistory(c)
        /\ calls[c].pc = "awaiting"
        /\ ncalls = 2
        /\ ~all_single[calls[c].history_id]
        /\ Stored(calls[c].pre, calls[c].history_id) \in {<<m>> : m \in UserMessages}
        /\ Len(Unwrap(calls[c].transmitted).messages) = 2
        /\ Range(Unwrap(calls[c].transmitted).messages) \subseteq UserMessages

-----------------------------------------------------------------------------
\* C17: a client without a history store runs send_chat_messages_with_history
\* statelessly: it transmits only the first element of request.messages (no
\* message when the list is empty), stores nothing on success, removes nothing
\* on failure, and a later call on the identifier sees no trace of earlier calls.
C17_StatelessWithoutStore ==
    \A c \in Slots :
        (WithHistory(c) /\ ~IsSome(calls[c].pre)) =>
            /\ ~IsSome(messages_history)
            /\ \A id \in Ids : Stored(messages_history, id) = <<>>
            /\ IsSome(calls[c].request) => Unwrap(calls[c].request).messages = NewTurn(c)
            /\ IsSome(calls[c].transmitted) =>
                   Unwrap(calls[c].transmitted).messages = NewTurn(c)

\* after a successful call on the identifier, a second call has posted only its
\* own message and there is still no store
C17_Witness ==
    \E c \in Slots :
        /\ WithHistory(c)
        /\ ~IsSome(calls[c].pre)
        /\ Len(turns_log[calls[c].history_id]) = 2
        /\ calls[c].pc = "awaiting"
        /\ Len(calls[c].req0.messages) = 2
        /\ Unwrap(calls[c].transmitted).messages = <<calls[c].req0.messages[1]>>
        /\ ~IsSome(messages_history)

\* without a store a failed call has returned and nothing was removed or stored
C17_WitnessFailure ==
    \E c \in Slots :
        /\ WithHistory(c)
        /\ ~IsSome(calls[c].pre)
        /\ ReturnedErr(c)
        /\ ~IsSome(messages_history)

-----------------------------------------------------------------------------
\* a step of a history-free operation in slot c: the call is entered, goes on
\* or ends, or its stream hands an item or ends
HistoryFreeStep(c) ==
    /\ calls'[c] # calls[c]
    /\ calls'[c].kind \in {"plain", "stream"}

C18_Step ==
    \A c \in Slots :
        /\ HistoryFreeStep(c) => messages_history' = messages_history
        /\ calls'[c].kind \in {"plain", "stream"} =>
               Unwrap(calls'[c].transmitted).messages = calls'[c].req0.messages

\* C18: send_chat_messages and send_chat_messages_stream never read or modify
\* the stored history: through such a call, whatever its outcome, every
\* identifier's stored sequence is unchanged, and the messages posted are
\* exactly the caller's request.messages with no stored history added.
C18_HistoryFreeOperations == [][C18_Step]_vars

\* send_chat_messages has returned on a client whose store holds a conversation
C18_Witness ==
    \E c \in Slots :
        /\ calls[c].kind = "plain"
        /\ calls[c].pc = "done"
        /\ \E id \in Ids : Len(Stored(messages_history, id)) = 2
        /\ Len(calls[c].req0.messages) = 2
        /\ Unwrap(calls[c].transmitted).messages = calls[c].req0.messages

\* a stream has delivered items on a client whose store holds a conversation
C18_WitnessStream ==
    \E c \in Slots :
        /\ calls[c].kind = "stream"
        /\ calls[c].pc = "streaming"
        /\ calls[c].nitems > 0
        /\ messages_history = calls[c].pre
        /\ \E id \in Ids : Len(Stored(messages_history, id)) = 2
        /\ Len(calls[c].req0.messages) = 2
        /\ Unwrap(calls[c].transmitted).messages = calls[c].req0.messages

\* a history-aware call has stored a turn while a stream was open, and the
\* stream has handed an item since
C18_WitnessBesideCall ==
    \E c, d \in Slots :
        /\ calls[c].kind = "stream"
        /\ calls[c].pc = "streaming"
        /\ calls[c].nitems = 2
        /\ WithHistory(d)
        /\ ReturnedOk(d)
        /\ Stored(calls[c].pre, calls[d].history_id) = <<>>
        /\ Len(Stored(messages_history, calls[d].history_id)) = 2
        /\ Unwrap(calls[c].transmitted).messages = calls[c].req0.messages

-----------------------------------------------------------------------------
\* C19: get_prefill_messages returns the history of the identifier with the
\* new message added and has no impact on the stored history: the stored
\* sequence of the identifier is the same after the helper returns as before.
C19_PrefillLeavesStoreAlone ==
    \A c \in Slots :
        (WithHistory(c) /\ calls[c].pc = "prefilled") =>
            /\ Unwrap(calls[c].request).messages =
                   Stored(calls[c].pre, calls[c].history_id) \o NewTurn(c)
            /\ Stored(messages_history, calls[c].history_id) =
                   Stored(calls[c].pre, calls[c].history_id)

====
